---- MODULE Spec2Model ----
(***************************************************************************)
(* Model of ekstra_streak_bot.py: the no-draw streak bot for Ekstraklasa.  *)
(*                                                                         *)
(* One run of main() is one atomic action Main (the script is             *)
(* single-threaded and runs to completion).  The world around the script   *)
(* is the list of finished fixtures the data provider has `published`, the *)
(* wall clock `now`, and the outcomes of the network calls, which are the  *)
(* inputs of Main.  The persisted state.json is `store`.                   *)
(*                                                                         *)
(* Timestamps: the ISO strings of the source are compared                 *)
(* lexicographically; they are modelled by integers with the same order.   *)
(* SENTINEL_DT (0) is datetime(1900,1,1).isoformat(), the stamp the scrape *)
(* parsers give every record; real kick-off stamps are 1, 2, ...           *)
(* None is Python's None (and an absent key of the state dictionary).      *)
(***************************************************************************)
EXTENDS Integers, Sequences, FiniteSets, TLC

VARIABLES
    store,                \* contents of STATE_PATH (state.json)
    now,                  \* time.time(), seconds
    published,            \* finished fixtures known to the provider, in provider order
    ALERT_MODE,           \* env ALERT_MODE
    USE_SCRAPE_FALLBACK,  \* env USE_SCRAPE_FALLBACK == "1"
    FORCE_REBUILD,        \* env FORCE_REBUILD == "1"
    API_FOOTBALL_KEY,     \* env API_FOOTBALL_KEY is set
    DRY_RUN,              \* env DRY_RUN == "1"
    TELEGRAM_TOKEN,       \* env TELEGRAM_TOKEN and TELEGRAM_CHAT_ID are both set
    run,                  \* observation of the latest run of main()
    notified,             \* timestamps of the notifications delivered in earlier runs
    fold,                 \* harness of apply_new_matches_to_streak
    scrape,               \* harness of fetch_all_matches_via_scrape_incremental
    http,                 \* harness of http_get_with_retry
    pair                  \* harness of main() under FORCE_REBUILD: a run and its twin

vars == <<store, now, published, ALERT_MODE, USE_SCRAPE_FALLBACK, FORCE_REBUILD,
          API_FOOTBALL_KEY, DRY_RUN, TELEGRAM_TOKEN, run, notified, fold, scrape, http, pair>>

cfgVars == <<ALERT_MODE, USE_SCRAPE_FALLBACK, FORCE_REBUILD, API_FOOTBALL_KEY,
             DRY_RUN, TELEGRAM_TOKEN>>

-----------------------------------------------------------------------------
(* Bounds of the model *)

MaxPublished == 2   \* fixtures the provider publishes in one behaviour
MaxTicks == 2       \* clock ticks in one behaviour
MaxGoals == 1       \* goals per side in the fold harness
MaxLen == 3         \* length of the lists in the fold harness
MaxPrior == 2       \* prior streak in the fold harness
MaxTries == 3       \* max_tries in the harness of http_get_with_retry
MaxBackoff == 2     \* backoff in the harness of http_get_with_retry
MaxBatch == 3       \* fixtures that finish between two runs (a matchday)
MaxSeason == 5      \* fixtures of a season with matchdays

(* Program constants *)

None == -1
SENTINEL_DT == 0
THRESHOLD == 2
RUN_INTERVAL_MIN == 1
MAX_REASONABLE_STREAK == 3
LEAGUE_ID == 106
TickSec == 60
PageSize == 2

Min(a, b) == IF a < b THEN a ELSE b

-----------------------------------------------------------------------------
(* Match records *)

Match(dt, hg, ag) == [dt |-> dt, home_goals |-> hg, away_goals |-> ag]

NoMatch == Match(None, None, None)

IsDraw(m) == m.home_goals = m.away_goals

-----------------------------------------------------------------------------
(* SERIA BEZ REMISOW: apply_new_matches_to_streak *)

FoldStep(acc, m) ==
    IF m.home_goals = m.away_goals
        THEN [streak |-> 0, last |-> NoMatch]
        ELSE [streak |-> acc.streak + 1, last |-> m]

\* a fold that forgets to clear the reference on a draw
FoldStepKeepsLast(acc, m) ==
    IF m.home_goals = m.away_goals
        THEN [streak |-> 0, last |-> acc.last]
        ELSE [streak |-> acc.streak + 1, last |-> m]

RECURSIVE FoldFrom(_, _, _)
FoldFrom(acc, new_matches, i) ==
    IF i > Len(new_matches) THEN acc
    ELSE FoldFrom(FoldStep(acc, new_matches[i]), new_matches, i + 1)

RECURSIVE FoldFromKeepsLast(_, _, _)
FoldFromKeepsLast(acc, new_matches, i) ==
    IF i > Len(new_matches) THEN acc
    ELSE FoldFromKeepsLast(FoldStepKeepsLast(acc, new_matches[i]), new_matches, i + 1)

\* mutant: a draw resets the streak but leaves the last-match reference
apply_keeps_last_on_draw(streak, new_matches) ==
    FoldFromKeepsLast([streak |-> streak, last |-> NoMatch], new_matches, 1)

\* mutant: the loop starts at the second record (for m in new_matches[1:])
apply_skips_first(streak, new_matches) ==
    FoldFrom([streak |-> streak, last |-> NoMatch], new_matches, 2)

\* mutant: the fold restarts from 0 instead of the prior streak
apply_ignores_prior(streak, new_matches) ==
    FoldFrom([streak |-> 0, last |-> NoMatch], new_matches, 1)

apply_new_matches_to_streak(streak, new_matches) ==
    FoldFrom([streak |-> streak, last |-> NoMatch], new_matches, 1)

-----------------------------------------------------------------------------
(* State store: load_state, save_state, guard_min_interval, stamp_run *)

EmptyStore ==
    [last_checked_dt |-> None, last_streak_len |-> None, last_notified_dt |-> None,
     last_full_run_ts |-> None, apifootball_league_id |-> None]

\* json.load of the file; {} when it is missing or unreadable (all keys absent)
load_state(disk) == disk

\* json.dump of the whole dictionary: the file becomes exactly `state`
save_state(state) == state

\* mutant: the comparison is <= instead of <
guard_min_interval_inclusive(state, t) ==
    IF state.last_full_run_ts = None THEN FALSE
    ELSE t - state.last_full_run_ts <= RUN_INTERVAL_MIN * 60

guard_min_interval(state, t) ==
    IF state.last_full_run_ts = None THEN FALSE
    ELSE t - state.last_full_run_ts < RUN_INTERVAL_MIN * 60

stamp_run(state, t) == [state EXCEPT !.last_full_run_ts = t]

-----------------------------------------------------------------------------
(* API-FOOTBALL: the provider and api_fetch_fixtures_incremental *)

\* Kick-off of the latest published fixture
LatestKickoff == IF published = <<>> THEN 1 ELSE published[Len(published)].dt

Reverse(seq) == [i \in 1..Len(seq) |-> seq[Len(seq) + 1 - i]]

\* The fixtures the provider returns for status=FT: what it has published, in
\* kick-off order ("plain"), or latest first and after one more item whose goals
\* are still null ("shuffled").
ProviderItems(view) ==
    IF view = "shuffled" THEN <<Match(LatestKickoff, None, None)>> \o Reverse(published)
    ELSE published

\* paging.total of the provider's reply
PagingTotal(items) == (Len(items) + PageSize - 1) \div PageSize

\* "response" of page p
PageResponse(items, p) ==
    SubSeq(items, (p - 1) * PageSize + 1, Min(p * PageSize, Len(items)))

\* lines 132-138: the items of a page that become match records
KeepItem(item, last_checked_dt) ==
    /\ ~(last_checked_dt # None /\ ~FORCE_REBUILD /\ item.dt <= last_checked_dt)
    /\ ~(item.home_goals = None \/ item.away_goals = None)

RECURSIVE AppendKept(_, _, _, _)
AppendKept(matches, response, i, last_checked_dt) ==
    IF i > Len(response) THEN matches
    ELSE AppendKept(IF KeepItem(response[i], last_checked_dt)
                        THEN Append(matches, response[i]) ELSE matches,
                    response, i + 1, last_checked_dt)

\* the while loop over pages; total_pages = int(paging.total) or 1, re-read on each page
RECURSIVE FetchPages(_, _, _, _, _)
FetchPages(items, page, total_pages, matches, last_checked_dt) ==
    IF page > total_pages THEN matches
    ELSE LET total == PagingTotal(items)
         IN  FetchPages(items, page + 1, IF total = 0 THEN 1 ELSE total,
                        AppendKept(matches, PageResponse(items, page), 1, last_checked_dt),
                        last_checked_dt)

\* list.sort(key=dt): a stable insertion of m into a sorted list
RECURSIVE InsertByDt(_, _)
InsertByDt(sorted, m) ==
    IF sorted = <<>> THEN <<m>>
    ELSE IF sorted[Len(sorted)].dt <= m.dt THEN Append(sorted, m)
    ELSE Append(InsertByDt(SubSeq(sorted, 1, Len(sorted) - 1), m), sorted[Len(sorted)])

RECURSIVE SortByDt(_, _, _)
SortByDt(matches, i, sorted) ==
    IF i > Len(matches) THEN sorted
    ELSE SortByDt(matches, i + 1, InsertByDt(sorted, matches[i]))

api_fetch_fixtures_incremental(items, last_checked_dt) ==
    SortByDt(FetchPages(items, 1, 1, <<>>, last_checked_dt), 1, <<>>)

-----------------------------------------------------------------------------
(* LEGACY FALLBACK: candidate_urls_for_season, the parsers and                *)
(* fetch_all_matches_via_scrape_incremental                                  *)

\* What session.get does in one attempt: it raises a requests.RequestException
\* (exc), or it answers with a status code.
HttpResponse(exc, status) == [exc |-> exc, status |-> status]

\* An exception is named by the attempt in which it arose and by its kind:
\* "network" is raised by session.get, "http" by raise_for_status, "runtime" is the
\* RuntimeError of line 219.
Exception(attempt, kind) == [attempt |-> attempt, kind |-> kind]

NoException == Exception(0, "none")

\* time.sleep(secs) after attempt number `after` (counted from 1)
Sleep(after, secs) == [after |-> after, secs |-> secs]

\* What the function hands back: the response it returns or the exception it
\* raises, the number of requests it made and the sleeps it took.
HttpReturned(status, requests, sleeps) ==
    [kind |-> "returned", status |-> status, err |-> NoException, requests |-> requests,
     sleeps |-> sleeps]

HttpRaised(err, requests, sleeps) ==
    [kind |-> "raised", status |-> 0, err |-> err, requests |-> requests, sleeps |-> sleeps]

\* for i in range(max_tries): responses[i + 1] is what attempt i meets
RECURSIVE RetryLoop(_, _, _, _, _, _)
RetryLoop(responses, max_tries, backoff, i, last_exc, sleeps) ==
    IF i >= max_tries
        THEN HttpRaised(IF last_exc # NoException THEN last_exc ELSE Exception(0, "runtime"),
                        i, sleeps)
    ELSE LET r == responses[i + 1]
             slept == Append(sleeps, Sleep(i + 1, backoff * (i + 1)))
         IN  IF r.exc
                 THEN RetryLoop(responses, max_tries, backoff, i + 1,
                                Exception(i + 1, "network"), slept)
             ELSE IF r.status = 200
                 THEN HttpReturned(r.status, i + 1, sleeps)
             ELSE IF r.status \in {403, 429}
                 THEN RetryLoop(responses, max_tries, backoff, i + 1, last_exc, slept)
             ELSE IF r.status >= 400
                 \* raise_for_status raises an HTTPError, which is a RequestException
                 \* and is caught by the except of line 214
                 THEN RetryLoop(responses, max_tries, backoff, i + 1,
                                Exception(i + 1, "http"), slept)
             \* raise_for_status does nothing: the next attempt follows at once
             ELSE RetryLoop(responses, max_tries, backoff, i + 1, last_exc, sleeps)

http_get_with_retry(responses, max_tries, backoff) ==
    RetryLoop(responses, max_tries, backoff, 0, NoException, <<>>)

\* A locator: `proxy` says that it goes through r.jina.ai, `scheme` is the scheme
\* of the page itself, `host` and `page` name the page.
Url(proxy, scheme, host, page) ==
    [proxy |-> proxy, scheme |-> scheme, host |-> host, page |-> page]

Candidate(url, reader_mode, tag) == [url |-> url, reader_mode |-> reader_mode, tag |-> tag]

\* lines 223-229: the six entries written out by hand
PrimaryCandidates ==
    << Candidate(Url(FALSE, "http", "90minut", "liga"), FALSE, "90minut"),
       Candidate(Url(TRUE, "http", "90minut", "liga"), TRUE, "90minut-reader"),
       Candidate(Url(FALSE, "https", "worldfootball", "all_matches"), FALSE, "worldfootball-all"),
       Candidate(Url(FALSE, "https", "worldfootball", "schedule"), FALSE, "worldfootball-schedule"),
       Candidate(Url(FALSE, "https", "weltfussball", "alle_spiele"), FALSE, "weltfussball-alle"),
       Candidate(Url(FALSE, "https", "weltfussball", "spielplan"), FALSE, "weltfussball-spielplan") >>

\* base + u.replace("https://","").replace("http://",""): the page behind the proxy,
\* always asked for over http
ReaderOf(c) == Candidate(Url(TRUE, "http", c.url.host, c.url.page), TRUE, c.tag \o "-reader")

\* lines 231-233: a reader rendition for every entry that is not one already
RECURSIVE AppendReaders(_, _, _)
AppendReaders(urls, snapshot, i) ==
    IF i > Len(snapshot) THEN urls
    ELSE AppendReaders(IF snapshot[i].url.proxy THEN urls
                       ELSE Append(urls, ReaderOf(snapshot[i])),
                       snapshot, i + 1)

candidate_urls_for_season == AppendReaders(PrimaryCandidates, PrimaryCandidates, 1)

NumSources == Len(candidate_urls_for_season)

\* Both parsers stamp every record with datetime(1900,1,1); `rows` are the score
\* lines <<home_goals, away_goals>> that the page holds, in the page's order.
parse_matches_from_text(rows) ==
    [i \in 1..Len(rows) |-> Match(SENTINEL_DT, rows[i][1], rows[i][2])]

parse_matches_from_html_table(rows) ==
    SortByDt([i \in 1..Len(rows) |-> Match(SENTINEL_DT, rows[i][1], rows[i][2])], 1, <<>>)

\* lines 289-293: which parser reads the content of a candidate
ExtractMatches(c, rows) ==
    IF c.reader_mode THEN parse_matches_from_text(rows)
    ELSE IF c.url.host \in {"worldfootball", "weltfussball"}
        THEN parse_matches_from_html_table(rows)
        ELSE parse_matches_from_text(rows)

\* A response of a source: exc says that fetching or parsing it raised; otherwise
\* rows is what the page holds.
Response(exc, rows) == [exc |-> exc, rows |-> rows]

\* What the function hands back: the list and the locator (src is its index in the
\* candidate list), or the exception it raises; `tried` are the tags of the
\* sources it asked, in the order of asking.
ScrapeReturned(matches, i, url, tried) ==
    [kind |-> "ok", err |-> None, matches |-> matches, src |-> i, url |-> url,
     tried |-> tried]

ScrapeRaised(err, tried) ==
    [kind |-> "raised", err |-> err, matches |-> <<>>, src |-> 0,
     url |-> Url(FALSE, "", "", ""), tried |-> tried]

\* The exception of source i is named i; 0 names the RuntimeError of line 303.
GenericError == 0

RECURSIVE ScrapeLoop(_, _, _, _, _)
ScrapeLoop(urls, responses, i, last_error, tried) ==
    IF i > Len(urls)
        THEN ScrapeRaised(IF last_error # None THEN last_error ELSE GenericError, tried)
    ELSE IF responses[i].exc
        THEN ScrapeLoop(urls, responses, i + 1, i, Append(tried, urls[i].tag))
    ELSE LET matches == ExtractMatches(urls[i], responses[i].rows)
         IN  IF matches = <<>>
                THEN ScrapeLoop(urls, responses, i + 1, last_error, Append(tried, urls[i].tag))
                ELSE ScrapeReturned(matches, i, urls[i].url, Append(tried, urls[i].tag))

\* mutant of the loop: the error of the first failing source is kept, not the last
RECURSIVE ScrapeLoopFirstError(_, _, _, _, _)
ScrapeLoopFirstError(urls, responses, i, last_error, tried) ==
    IF i > Len(urls)
        THEN ScrapeRaised(IF last_error # None THEN last_error ELSE GenericError, tried)
    ELSE IF responses[i].exc
        THEN ScrapeLoopFirstError(urls, responses, i + 1,
                                  IF last_error = None THEN i ELSE last_error,
                                  Append(tried, urls[i].tag))
    ELSE LET matches == ExtractMatches(urls[i], responses[i].rows)
         IN  IF matches = <<>>
                THEN ScrapeLoopFirstError(urls, responses, i + 1, last_error,
                                          Append(tried, urls[i].tag))
                ELSE ScrapeReturned(matches, i, urls[i].url, Append(tried, urls[i].tag))

fetch_keeps_first_error(responses) ==
    ScrapeLoopFirstError(candidate_urls_for_season, responses, 1, None, <<>>)

fetch_all_matches_via_scrape_incremental(responses) ==
    ScrapeLoop(candidate_urls_for_season, responses, 1, None, <<>>)

-----------------------------------------------------------------------------
(* TELEGRAM: send_telegram *)

\* requests.post and raise_for_status: the message is delivered, or the call raises
NotifierOutcomes == {"delivered", "raised"}

\* `post` is what the request to Telegram would do.  Under DRY_RUN the text is
\* printed and the call returns; without a token or chat id a complaint is printed
\* to stderr and the call returns as well; neither makes the request.
send_telegram(post) ==
    IF DRY_RUN THEN "dry_run"
    ELSE IF ~TELEGRAM_TOKEN THEN "not_configured"
    ELSE post

-----------------------------------------------------------------------------
(* MAIN *)

\* What one call of apply_new_matches_to_streak in main() saw and produced
FoldObs(path, base, matches, f) ==
    [path |-> path, base |-> base, n |-> Len(matches), streak |-> f.streak,
     lastDt |-> IF matches = <<>> THEN None ELSE matches[Len(matches)].dt,
     ref |-> f.last.dt]

\* The outcome of (a part of) a run: main's dictionary `state`, the file `disk`,
\* how control left, and what the run did on the way.
Outcome(state, disk, exit, apiExc, net, folds, notifyCalls, delivered) ==
    [state |-> state, disk |-> disk, exit |-> exit, apiExc |-> apiExc, net |-> net,
     folds |-> folds, notifyCalls |-> notifyCalls, delivered |-> delivered]

\* lines 390-392 and 381-383: the fields written after the fold
WithStreak(state, matches, streak) ==
    [state EXCEPT !.last_checked_dt = IF matches # <<>> THEN matches[Len(matches)].dt ELSE @,
                  !.last_streak_len = streak]

\* mutant: the watermark and streak are written only when the list is not empty
WithStreakOnlyIfMatches(state, matches, streak) ==
    IF matches # <<>> THEN WithStreak(state, matches, streak) ELSE state

\* lines 389-393
UpdateAfterFold(state, matches, streak) == WithStreak(state, matches, streak)

\* lines 398-405
should_notify(last, streak, prev_streak, last_notified_dt) ==
    IF last # NoMatch /\ streak >= THRESHOLD
        THEN IF ALERT_MODE = "EACH" THEN last.dt # last_notified_dt
             ELSE IF ALERT_MODE = "THRESHOLD_ONLY" THEN prev_streak < THRESHOLD
             ELSE last.dt # last_notified_dt
        ELSE FALSE

\* api_get_league_id_poland_ekstraklasa: it loads the file itself and, when the id
\* is not cached, asks the provider and saves its own copy with the id added.
\* Returns the file afterwards, or raises.
LeagueLookup(disk, league) ==
    LET state == load_state(disk)
    IN  IF state.apifootball_league_id # None
            THEN [raised |-> FALSE, disk |-> disk]
        ELSE IF league # "ok"
            THEN [raised |-> TRUE, disk |-> disk]
        ELSE [raised |-> FALSE,
              disk |-> save_state([state EXCEPT !.apifootball_league_id = LEAGUE_ID])]

\* lines 352-422: the try block of the API path.  exit is "returned" (line 387 or
\* 420) or "raised" (the except of line 421 caught something).
ApiPath(state, disk, last_checked_dt, prev_streak, last_notified_dt, t, in, notifier) ==
    LET lg == LeagueLookup(disk, in.league)
    IN
    IF lg.raised
        THEN Outcome(state, disk, "raised", "league", {"api"}, <<>>, 0, <<>>)
    ELSE IF in.fixtures # "ok"
        THEN Outcome(state, lg.disk, "raised", "fixtures", {"api"}, <<>>, 0, <<>>)
    ELSE
    LET new_matches == api_fetch_fixtures_incremental(ProviderItems(in.view), last_checked_dt)
        base_streak == IF FORCE_REBUILD \/ last_checked_dt = None THEN 0 ELSE prev_streak
        f == apply_new_matches_to_streak(base_streak, new_matches)
        streak == f.streak
        last == f.last
        folds == <<FoldObs("api", base_streak, new_matches, f)>>
    IN
    IF streak > MAX_REASONABLE_STREAK
        THEN LET clamped == WithStreak(state, new_matches, Min(streak, MAX_REASONABLE_STREAK))
                 stamped == stamp_run(clamped, t)
             IN  Outcome(stamped, save_state(stamped), "returned", "none", {"api"}, folds, 0, <<>>)
    ELSE
    LET state1 == UpdateAfterFold(state, new_matches, streak)
    IN
    IF should_notify(last, streak, prev_streak, last_notified_dt) /\ last # NoMatch
        THEN LET sent == send_telegram(notifier)
             IN  IF sent = "raised"
                THEN Outcome(state1, save_state(state1), "raised", "notifier",
                             {"api", "telegram"}, folds, 1, <<>>)
                ELSE LET state2 == [state1 EXCEPT !.last_notified_dt = last.dt]
                         stamped == stamp_run(state2, t)
                     IN  Outcome(stamped, save_state(stamped), "returned", "none",
                                 IF sent = "delivered" THEN {"api", "telegram"} ELSE {"api"},
                                 folds, 1,
                                 IF sent = "delivered" THEN <<last.dt>> ELSE <<>>)
        ELSE LET stamped == stamp_run(state1, t)
             IN  Outcome(stamped, save_state(stamped), "returned", "none", {"api"}, folds, 0, <<>>)

\* lines 425-451: the try block of the fallback, entered with what the API path
\* left behind in `a` (main's dictionary keeps the API path's writes; the locals
\* last_checked_dt, prev_streak and last_notified_dt are those of line 347-349).
FallbackPath(a, last_checked_dt, prev_streak, last_notified_dt, t, responses, notifier) ==
    LET got == fetch_all_matches_via_scrape_incremental(responses)
        net1 == a.net \cup {"scrape"}
    IN
    IF got.kind # "ok"
        THEN Outcome(a.state, a.disk, "fallback_raised", a.apiExc, net1, a.folds,
                     a.notifyCalls, a.delivered)
    ELSE
    LET matches == got.matches
        base == IF FORCE_REBUILD \/ last_checked_dt = None THEN 0 ELSE prev_streak
        f == apply_new_matches_to_streak(base, matches)
        streak == f.streak
        folds == Append(a.folds, FoldObs("scrape", base, matches, f))
        state1 == WithStreak(a.state, matches, streak)
    IN
    IF streak > MAX_REASONABLE_STREAK
        THEN LET stamped == stamp_run(state1, t)
             IN  Outcome(stamped, save_state(stamped), "end", a.apiExc, net1, folds,
                         a.notifyCalls, a.delivered)
    ELSE
    IF /\ matches # <<>>
       /\ streak >= THRESHOLD
       /\ (last_notified_dt = None \/ matches[Len(matches)].dt # last_notified_dt)
        THEN LET sent == send_telegram(notifier)
             IN  IF sent = "raised"
                THEN Outcome(state1, save_state(state1), "fallback_raised", a.apiExc,
                             net1 \cup {"telegram"}, folds, a.notifyCalls + 1, a.delivered)
                ELSE LET state2 == [state1 EXCEPT !.last_notified_dt = matches[Len(matches)].dt]
                         stamped == stamp_run(state2, t)
                     IN  Outcome(stamped, save_state(stamped), "end", a.apiExc,
                                 IF sent = "delivered" THEN net1 \cup {"telegram"} ELSE net1,
                                 folds, a.notifyCalls + 1,
                                 IF sent = "delivered"
                                     THEN Append(a.delivered, matches[Len(matches)].dt)
                                     ELSE a.delivered)
        ELSE LET stamped == stamp_run(state1, t)
             IN  Outcome(stamped, save_state(stamped), "end", a.apiExc, net1, folds,
                         a.notifyCalls, a.delivered)

\* lines 340-422 of main(): the interval guard, the locals and the API path
Locals(state) ==
    [last_checked_dt |-> IF FORCE_REBUILD THEN None ELSE state.last_checked_dt,
     prev_streak |-> IF FORCE_REBUILD THEN 0
                     ELSE IF state.last_streak_len = None THEN 0 ELSE state.last_streak_len,
     last_notified_dt |-> state.last_notified_dt]

MainApiStage(disk, t, in, n1) ==
    LET state == load_state(disk)
        loc == Locals(state)
    IN
    IF guard_min_interval(state, t)
        THEN Outcome(state, disk, "skipped", "none", {}, <<>>, 0, <<>>)
    ELSE IF API_FOOTBALL_KEY
        THEN ApiPath(state, disk, loc.last_checked_dt, loc.prev_streak,
                     loc.last_notified_dt, t, in, n1)
        ELSE Outcome(state, disk, "no_key", "none", {}, <<>>, 0, <<>>)

\* mutant: the fallback is attempted whatever USE_SCRAPE_FALLBACK says
MainFallbackStageAlwaysScrapes(disk, t, a, responses, n2) ==
    LET loc == Locals(load_state(disk))
    IN
    IF a.exit \in {"skipped", "returned"} THEN a
    ELSE FallbackPath(a, loc.last_checked_dt, loc.prev_streak, loc.last_notified_dt,
                      t, responses, n2)

\* lines 424-454 of main(): what follows when the API path did not return
MainFallbackStage(disk, t, a, responses, n2) ==
    LET loc == Locals(load_state(disk))
    IN
    IF a.exit \in {"skipped", "returned"} THEN a
    ELSE IF USE_SCRAPE_FALLBACK
        THEN FallbackPath(a, loc.last_checked_dt, loc.prev_streak, loc.last_notified_dt,
                          t, responses, n2)
        ELSE [a EXCEPT !.exit = "end"]

\* main(): disk is the file at the start, t the clock; `in` are the outcomes of the
\* API requests, `responses` those of the scrape sources, n1 and n2 those of the
\* notifier in the API path and in the fallback.
main(disk, t, in, n1, responses, n2) ==
    MainFallbackStage(disk, t, MainApiStage(disk, t, in, n1), responses, n2)

-----------------------------------------------------------------------------
(* The runs of the script and the world around it *)

PublishedScores == {<<0, 0>>, <<1, 0>>}

Timestamps == SENTINEL_DT..MaxPublished

\* The score lines a scraped page shows: the season so far, in chronological order
PageRows ==
    [i \in 1..Len(published) |-> <<published[i].home_goals, published[i].away_goals>>]

AllRaise == [i \in 1..NumSources |-> Response(TRUE, <<>>)]
BlockedThenShow ==
    [i \in 1..NumSources |->
        IF i = 1 THEN Response(TRUE, <<>>)
        ELSE IF i = 2 THEN Response(FALSE, <<>>)
        ELSE Response(FALSE, PageRows)]

ScrapeScenarios == {BlockedThenShow, AllRaise}

ApiInput(league, fixtures, view) ==
    [league |-> league, fixtures |-> fixtures, view |-> view]

ProviderViews == {"plain", "shuffled"}

\* The outcomes that the run can tell apart: a request that is not made has none
ApiChoices ==
    IF API_FOOTBALL_KEY /\ ~guard_min_interval(load_state(store), now)
        THEN (IF store.apifootball_league_id = None
                 THEN {ApiInput("error", "ok", "plain")} ELSE {})
             \cup {ApiInput("ok", "error", "plain")}
             \cup {ApiInput("ok", "ok", v) : v \in ProviderViews}
        ELSE {ApiInput("ok", "ok", "plain")}

N1Choices(in) ==
    IF MainApiStage(store, now, in, "delivered").notifyCalls > 0
        THEN NotifierOutcomes ELSE {"delivered"}

ScrapeChoices(a) ==
    IF USE_SCRAPE_FALLBACK /\ a.exit \notin {"skipped", "returned"}
        THEN ScrapeScenarios ELSE {AllRaise}

N2Choices(a, responses) ==
    IF MainFallbackStage(store, now, a, responses, "delivered").notifyCalls > a.notifyCalls
        THEN NotifierOutcomes ELSE {"delivered"}

Range(seq) == {seq[i] : i \in 1..Len(seq)}

RunIdle ==
    [ran |-> FALSE, pre |-> EmptyStore, t |-> 0, exit |-> "none", apiExc |-> "none",
     net |-> {}, folds |-> <<>>, notifyCalls |-> 0, delivered |-> <<>>, repeated |-> {}]

FoldIdle ==
    [pc |-> "idle", prior |-> 0, matches |-> <<>>, k |-> 0,
     out |-> [streak |-> 0, last |-> NoMatch],
     inc |-> [streak |-> 0, last |-> NoMatch],
     full |-> [streak |-> 0, last |-> NoMatch]]

ScrapeIdle == [pc |-> "idle", responses |-> <<>>, got |-> ScrapeRaised(GenericError, <<>>)]

HttpIdle ==
    [pc |-> "idle", max_tries |-> 0, backoff |-> 0, responses |-> <<>>,
     got |-> HttpRaised(NoException, 0, <<>>)]

NoOutcome == Outcome(EmptyStore, EmptyStore, "none", "none", {}, <<>>, 0, <<>>)

PairIdle == [pc |-> "idle", other |-> EmptyStore, a |-> NoOutcome, b |-> NoOutcome]

Init ==
    /\ store = EmptyStore
    /\ now = 0
    /\ published = <<>>
    /\ ALERT_MODE \in {"EACH", "THRESHOLD_ONLY"}
    /\ USE_SCRAPE_FALLBACK \in BOOLEAN
    /\ FORCE_REBUILD \in BOOLEAN
    /\ API_FOOTBALL_KEY \in BOOLEAN
    /\ DRY_RUN = FALSE
    /\ TELEGRAM_TOKEN = TRUE
    /\ run = RunIdle
    /\ notified = {}
    /\ fold = FoldIdle
    /\ scrape = ScrapeIdle
    /\ http = HttpIdle
    /\ pair = PairIdle

\* The provider learns the result of one more fixture; fixtures finish in the
\* order of their kick-off, and several may share a kick-off time.  Only the order
\* of the stamps matters, so the next kick-off is the latest one or the one after.
NextKickoffs == IF published = <<>> THEN {1} ELSE {LatestKickoff, LatestKickoff + 1}

Publish ==
    /\ Len(published) < MaxPublished
    /\ \E dt \in NextKickoffs, sc \in PublishedScores :
            published' = Append(published, Match(dt, sc[1], sc[2]))
    /\ UNCHANGED <<store, now, cfgVars, run, notified, fold, scrape, http, pair>>

\* Time passes between two runs
Tick ==
    /\ now < MaxTicks * TickSec
    /\ now' = now + TickSec
    /\ UNCHANGED <<store, published, cfgVars, run, notified, fold, scrape, http, pair>>

\* One run of the script
Main ==
    /\ \E in \in ApiChoices :
         \E n1 \in N1Choices(in) :
           \E a \in {MainApiStage(store, now, in, n1)} :
               \E responses \in ScrapeChoices(a) :
                 \E n2 \in N2Choices(a, responses) :
                    \E r \in {MainFallbackStage(store, now, a, responses, n2)} :
                        /\ store' = r.disk
                        /\ run' = [ran |-> TRUE, pre |-> store, t |-> now, exit |-> r.exit,
                                   apiExc |-> r.apiExc, net |-> r.net, folds |-> r.folds,
                                   notifyCalls |-> r.notifyCalls, delivered |-> r.delivered,
                                   repeated |-> Range(r.delivered) \cap notified]
                        /\ notified' = notified \cup Range(r.delivered)
    /\ UNCHANGED <<now, published, cfgVars, fold, scrape, http, pair>>

Next == Publish \/ Tick \/ Main

Spec == Init /\ [][Next]_vars

\* The same runs in every configuration of the notifier
InitNotify ==
    /\ store = EmptyStore
    /\ now = 0
    /\ published = <<>>
    /\ ALERT_MODE = "EACH"
    /\ USE_SCRAPE_FALLBACK \in BOOLEAN
    /\ FORCE_REBUILD = FALSE
    /\ API_FOOTBALL_KEY \in BOOLEAN
    /\ DRY_RUN \in BOOLEAN
    /\ TELEGRAM_TOKEN \in BOOLEAN
    /\ run = RunIdle
    /\ notified = {}
    /\ fold = FoldIdle
    /\ scrape = ScrapeIdle
    /\ http = HttpIdle
    /\ pair = PairIdle

SpecNotify == InitNotify /\ [][Next]_vars

\* Behaviours without FORCE_REBUILD in which every run succeeds: no request and no
\* notification fails, the run acquires a list, folds it once, is not clamped and
\* reaches the end of its path
InitNoRebuild ==
    /\ store = EmptyStore
    /\ now = 0
    /\ published = <<>>
    /\ ALERT_MODE \in {"EACH", "THRESHOLD_ONLY"}
    /\ USE_SCRAPE_FALLBACK \in BOOLEAN
    /\ FORCE_REBUILD = FALSE
    /\ API_FOOTBALL_KEY \in BOOLEAN
    /\ DRY_RUN = FALSE
    /\ TELEGRAM_TOKEN = TRUE
    /\ run = RunIdle
    /\ notified = {}
    /\ fold = FoldIdle
    /\ scrape = ScrapeIdle
    /\ http = HttpIdle
    /\ pair = PairIdle

MainSuccessful ==
    /\ Main
    /\ run'.exit \in {"returned", "end"}
    /\ run'.apiExc = "none"
    /\ Len(run'.folds) = 1
    /\ run'.folds[1].streak <= MAX_REASONABLE_STREAK

NextSuccessful == Publish \/ Tick \/ MainSuccessful

SpecSuccessful == InitNoRebuild /\ [][NextSuccessful]_vars

-----------------------------------------------------------------------------
(* Harness of apply_new_matches_to_streak: every prior streak up to MaxPrior and  *)
(* every chronologically ordered list of up to MaxLen records                  *)

Scores == (0..MaxGoals) \X (0..MaxGoals)

\* record i of a list kicked off at time i
FoldLists ==
    UNION {{[i \in 1..n |-> Match(i, sc[i][1], sc[i][2])] : sc \in [1..n -> Scores]} :
           n \in 0..MaxLen}

InitFold ==
    /\ store = EmptyStore
    /\ now = 0
    /\ published = <<>>
    /\ ALERT_MODE = "EACH"
    /\ USE_SCRAPE_FALLBACK = FALSE
    /\ FORCE_REBUILD = FALSE
    /\ API_FOOTBALL_KEY = FALSE
    /\ DRY_RUN = FALSE
    /\ TELEGRAM_TOKEN = TRUE
    /\ run = RunIdle
    /\ notified = {}
    /\ scrape = ScrapeIdle
    /\ http = HttpIdle
    /\ pair = PairIdle
    /\ fold \in {[FoldIdle EXCEPT !.pc = "input", !.prior = p, !.matches = ms] :
                    p \in 0..MaxPrior, ms \in FoldLists}

\* one call on the whole list
FoldApply ==
    /\ fold.pc = "input"
    /\ fold' = [fold EXCEPT !.pc = "applied",
                            !.out = apply_new_matches_to_streak(fold.prior, fold.matches)]
    /\ UNCHANGED <<store, now, published, cfgVars, run, notified, scrape, http, pair>>

\* the list cut after k records: a first call on the prefix from 0, a second on the
\* suffix from the streak of the first; and one call on the whole list from 0
FoldSplit ==
    /\ fold.pc = "input"
    /\ fold.prior = 0
    /\ \E k \in 0..Len(fold.matches) :
         LET a == SubSeq(fold.matches, 1, k)
             b == SubSeq(fold.matches, k + 1, Len(fold.matches))
         IN  fold' = [fold EXCEPT
                        !.pc = "split", !.k = k,
                        !.inc = apply_new_matches_to_streak(
                                    apply_new_matches_to_streak(0, a).streak, b),
                        !.full = apply_new_matches_to_streak(0, a \o b)]
    /\ UNCHANGED <<store, now, published, cfgVars, run, notified, scrape, http, pair>>

NextFold == FoldApply \/ FoldSplit

SpecFold == InitFold /\ [][NextFold]_vars

-----------------------------------------------------------------------------
(* Harness of fetch_all_matches_via_scrape_incremental: every source raises,     *)
(* holds nothing, or holds a page of its own                                  *)

\* the page of source i: one score line that no other source shows
OwnRows(i) == <<<<i, 0>>>>

InitScrape ==
    /\ store = EmptyStore
    /\ now = 0
    /\ published = <<>>
    /\ ALERT_MODE = "EACH"
    /\ USE_SCRAPE_FALLBACK = TRUE
    /\ FORCE_REBUILD = FALSE
    /\ API_FOOTBALL_KEY = FALSE
    /\ DRY_RUN = FALSE
    /\ TELEGRAM_TOKEN = TRUE
    /\ run = RunIdle
    /\ notified = {}
    /\ fold = FoldIdle
    /\ http = HttpIdle
    /\ pair = PairIdle
    /\ \E outcome \in [1..NumSources -> {"raise", "empty", "page"}] :
         scrape = [ScrapeIdle EXCEPT
                     !.pc = "input",
                     !.responses = [i \in 1..NumSources |->
                                      IF outcome[i] = "raise" THEN Response(TRUE, <<>>)
                                      ELSE IF outcome[i] = "empty" THEN Response(FALSE, <<>>)
                                      ELSE Response(FALSE, OwnRows(i))]]

ScrapeFetch ==
    /\ scrape.pc = "input"
    /\ scrape' = [scrape EXCEPT
                    !.pc = "done",
                    !.got = fetch_all_matches_via_scrape_incremental(scrape.responses)]
    /\ UNCHANGED <<store, now, published, cfgVars, run, notified, fold, http, pair>>

NextScrape == ScrapeFetch

SpecScrape == InitScrape /\ [][NextScrape]_vars

-----------------------------------------------------------------------------
(* Harness of http_get_with_retry: every max_tries up to MaxTries, every backoff *)
(* up to MaxBackoff and every sequence of max_tries answers                     *)

HttpStatuses == {200, 204, 403, 404, 429, 500}

HttpAttempts ==
    {HttpResponse(TRUE, 0)} \cup {HttpResponse(FALSE, st) : st \in HttpStatuses}

InitHttp ==
    /\ store = EmptyStore
    /\ now = 0
    /\ published = <<>>
    /\ ALERT_MODE = "EACH"
    /\ USE_SCRAPE_FALLBACK = TRUE
    /\ FORCE_REBUILD = FALSE
    /\ API_FOOTBALL_KEY = FALSE
    /\ DRY_RUN = FALSE
    /\ TELEGRAM_TOKEN = TRUE
    /\ run = RunIdle
    /\ notified = {}
    /\ fold = FoldIdle
    /\ scrape = ScrapeIdle
    /\ pair = PairIdle
    /\ \E n \in 0..MaxTries, b \in 1..MaxBackoff :
         \E rs \in [1..n -> HttpAttempts] :
            http = [HttpIdle EXCEPT !.pc = "input", !.max_tries = n, !.backoff = b,
                                    !.responses = rs]

HttpGet ==
    /\ http.pc = "input"
    /\ http' = [http EXCEPT
                  !.pc = "done",
                  !.got = http_get_with_retry(http.responses, http.max_tries, http.backoff)]
    /\ UNCHANGED <<store, now, published, cfgVars, run, notified, fold, scrape, pair>>

NextHttp == HttpGet

SpecHttp == InitHttp /\ [][NextHttp]_vars

-----------------------------------------------------------------------------
(* Harness of main() under FORCE_REBUILD: a run from a state file left by earlier *)
(* runs, and the same run, with the same answers of the sources, from the file   *)
(* without last_checked_dt and last_streak_len                                  *)

\* the seasons the provider may have published so far, built as Publish builds them
RECURSIVE Histories(_)
Histories(n) ==
    IF n = 0 THEN {<<>>}
    ELSE UNION {{Append(h, Match(dt, sc[1], sc[2])) :
                    dt \in (IF h = <<>> THEN {1} ELSE {h[Len(h)].dt, h[Len(h)].dt + 1}),
                    sc \in PublishedScores} :
                h \in Histories(n - 1)}

\* state files that differ from the empty one in what earlier runs wrote about the
\* season: the watermark, the streak and the notified match
RebuildStores ==
    {[EmptyStore EXCEPT !.last_checked_dt = lc, !.last_streak_len = sl,
                        !.last_notified_dt = ln] :
        lc \in {None} \cup Timestamps, sl \in {None} \cup 0..MaxPrior,
        ln \in {None} \cup Timestamps}

InitRebuild ==
    /\ now = 0
    /\ published \in UNION {Histories(n) : n \in 0..MaxPublished}
    /\ ALERT_MODE \in {"EACH", "THRESHOLD_ONLY"}
    /\ USE_SCRAPE_FALLBACK \in BOOLEAN
    /\ FORCE_REBUILD = TRUE
    /\ API_FOOTBALL_KEY \in BOOLEAN
    /\ DRY_RUN = FALSE
    /\ TELEGRAM_TOKEN = TRUE
    /\ run = RunIdle
    /\ notified = {}
    /\ fold = FoldIdle
    /\ scrape = ScrapeIdle
    /\ http = HttpIdle
    /\ store \in RebuildStores
    /\ (store.last_checked_dt # None \/ store.last_streak_len # None)
    /\ pair = [PairIdle EXCEPT
                 !.pc = "input",
                 !.other = [store EXCEPT !.last_checked_dt = None, !.last_streak_len = None]]

\* the two runs meet the same answers of the API, the scrape sources and Telegram
RebuildRuns ==
    /\ pair.pc = "input"
    /\ \E in \in ApiChoices :
         \E n1 \in N1Choices(in) :
           \E a \in {MainApiStage(store, now, in, n1)} :
               \E responses \in ScrapeChoices(a) :
                 \E n2 \in N2Choices(a, responses) :
                    pair' = [pair EXCEPT
                               !.pc = "done",
                               !.a = MainFallbackStage(store, now, a, responses, n2),
                               !.b = main(pair.other, now, in, n1, responses, n2)]
    /\ UNCHANGED <<store, now, published, cfgVars, run, notified, fold, scrape, http>>

NextRebuild == RebuildRuns

SpecRebuild == InitRebuild /\ [][NextRebuild]_vars

-----------------------------------------------------------------------------
(* Runs under ALERT_MODE=THRESHOLD_ONLY over a season in which several fixtures  *)
(* finish between two runs; the API answers and Telegram delivers              *)

\* the fixtures of a matchday: each kicks off after the one before
Matchdays(latest) ==
    UNION {{[i \in 1..n |-> Match(latest + i, sc[i][1], sc[i][2])] :
                sc \in [1..n -> PublishedScores]} :
           n \in 1..MaxBatch}

InitThresholdOnly ==
    /\ store = EmptyStore
    /\ now = 0
    /\ published \in UNION {Histories(n) : n \in 0..MaxPublished}
    /\ ALERT_MODE = "THRESHOLD_ONLY"
    /\ USE_SCRAPE_FALLBACK = FALSE
    /\ FORCE_REBUILD = FALSE
    /\ API_FOOTBALL_KEY = TRUE
    /\ DRY_RUN = FALSE
    /\ TELEGRAM_TOKEN = TRUE
    /\ run = RunIdle
    /\ notified = {}
    /\ fold = FoldIdle
    /\ scrape = ScrapeIdle
    /\ http = HttpIdle
    /\ pair = PairIdle

\* the provider learns the results of a matchday
Matchday ==
    /\ \E batch \in Matchdays(IF published = <<>> THEN 0 ELSE LatestKickoff) :
         /\ Len(published) + Len(batch) <= MaxSeason
         /\ published' = published \o batch
    /\ UNCHANGED <<store, now, cfgVars, run, notified, fold, scrape, http, pair>>

NextThresholdOnly == Matchday \/ Tick \/ MainSuccessful

SpecThresholdOnly == InitThresholdOnly /\ [][NextThresholdOnly]_vars

-----------------------------------------------------------------------------
(* Properties *)

FoldsOfRun == {run.folds[i] : i \in 1..Len(run.folds)}

LastFold == run.folds[Len(run.folds)]

PersistedStreak(st) == IF st.last_streak_len = None THEN 0 ELSE st.last_streak_len

\* C1: a run whose computed streak exceeds MAX_REASONABLE_STREAK leaves
\* last_streak_len equal to MAX_REASONABLE_STREAK in the store and never calls
\* send_telegram, on the API path and on the fallback path alike.
GuardClampsAndSilences ==
    (run.ran /\ \E f \in FoldsOfRun : f.streak > MAX_REASONABLE_STREAK)
        => /\ store.last_streak_len = MAX_REASONABLE_STREAK
           /\ run.notifyCalls = 0

\* C2: under ALERT_MODE=EACH no run delivers a notification for a timestamp for
\* which an earlier run already delivered one.
EachNotifiesTimestampOnce ==
    (ALERT_MODE = "EACH" /\ run.ran) => run.repeated = {}

\* C3: under ALERT_MODE=THRESHOLD_ONLY a run calls the notifier only if the streak
\* persisted before the run was below THRESHOLD and the streak it computed is at
\* or above THRESHOLD, whichever source supplied the matches.  (Stated for runs
\* without FORCE_REBUILD, which resets the previous streak on purpose.)
ThresholdOnlyNotifiesOnCrossing ==
    (ALERT_MODE = "THRESHOLD_ONLY" /\ ~FORCE_REBUILD /\ run.ran /\ run.notifyCalls > 0)
        => /\ PersistedStreak(run.pre) < THRESHOLD
           /\ \E f \in FoldsOfRun : f.streak >= THRESHOLD

\* C4: a non-empty list whose final record is a draw gives streak 0 and no
\* last-match reference, whatever the prior streak and the records before it.
FinalDrawResets ==
    (/\ fold.pc = "applied"
     /\ fold.matches # <<>>
     /\ IsDraw(fold.matches[Len(fold.matches)]))
        => fold.out = [streak |-> 0, last |-> NoMatch]

FinalDrawResetsWitness ==
    /\ fold.pc = "applied"
    /\ fold.prior > 0
    /\ Len(fold.matches) >= 2
    /\ ~IsDraw(fold.matches[Len(fold.matches) - 1])
    /\ IsDraw(fold.matches[Len(fold.matches)])
    /\ fold.out.streak = 0

\* C5: a list of N records without a draw gives streak prior + N; the reference is
\* the final record when N > 0 and is absent when N = 0.
NoDrawCounts ==
    (/\ fold.pc = "applied"
     /\ \A i \in 1..Len(fold.matches) : ~IsDraw(fold.matches[i]))
        => /\ fold.out.streak = fold.prior + Len(fold.matches)
           /\ fold.out.last = IF fold.matches = <<>> THEN NoMatch
                              ELSE fold.matches[Len(fold.matches)]

NoDrawCountsWitness ==
    /\ fold.pc = "applied"
    /\ fold.prior > 0
    /\ Len(fold.matches) >= 2
    /\ \A i \in 1..Len(fold.matches) : ~IsDraw(fold.matches[i])
    /\ fold.out.streak = fold.prior + Len(fold.matches)

\* C6: folding a prefix from 0 and then the suffix from the prefix's streak gives
\* the streak of one pass over the whole list, and the same reference when the
\* suffix is not empty.
SplitAgreesWithFullPass ==
    fold.pc = "split"
        => /\ fold.inc.streak = fold.full.streak
           /\ fold.k < Len(fold.matches) => fold.inc.last = fold.full.last

SplitAgreesWitness ==
    /\ fold.pc = "split"
    /\ 0 < fold.k
    /\ fold.k < Len(fold.matches)
    /\ \E i \in 1..fold.k : ~IsDraw(fold.matches[i])
    /\ \E i \in 1..fold.k : IsDraw(fold.matches[i])
    /\ fold.full.streak > Len(fold.matches) - fold.k

\* C7: a run is cut short exactly when last_full_run_ts is present and less than
\* RUN_INTERVAL_MIN minutes old; such a run makes no request and leaves the store
\* as it was.
IntervalGuardShortCircuits ==
    run.ran =>
        /\ run.exit = "skipped"
             <=> /\ run.pre.last_full_run_ts # None
                 /\ run.t - run.pre.last_full_run_ts < RUN_INTERVAL_MIN * 60
        /\ run.exit = "skipped"
             => /\ run.net = {}
                /\ run.notifyCalls = 0
                /\ run.folds = <<>>
                /\ store = run.pre

IntervalGuardWitness ==
    /\ run.ran
    /\ run.exit = "skipped"
    /\ API_FOOTBALL_KEY
    /\ USE_SCRAPE_FALLBACK
    /\ published # <<>>
    /\ run.pre.last_checked_dt = None
    /\ store = run.pre

\* C8: the sources are asked in list order; the first one whose extraction is not
\* empty ends the search and its list and locator are returned; when there is
\* none, the exception of the last source that raised is raised again, or the
\* generic error when none raised.
FirstUsableSourceWins ==
    scrape.pc = "done" =>
        LET r == scrape.responses
            g == scrape.got
            urls == candidate_urls_for_season
            Usable == {i \in 1..NumSources : ~r[i].exc /\ r[i].rows # <<>>}
            Raising == {i \in 1..NumSources : r[i].exc}
        IN  IF Usable # {}
                THEN LET first == CHOOSE i \in Usable : \A j \in Usable : i <= j
                     IN  /\ g.kind = "ok"
                         /\ g.src = first
                         /\ g.url = urls[first].url
                         /\ g.matches = <<Match(SENTINEL_DT, r[first].rows[1][1],
                                                r[first].rows[1][2])>>
                         /\ g.tried = [i \in 1..first |-> urls[i].tag]
                ELSE /\ g.kind = "raised"
                     /\ g.tried = [i \in 1..NumSources |-> urls[i].tag]
                     /\ g.err = IF Raising = {} THEN GenericError
                                ELSE CHOOSE i \in Raising : \A j \in Raising : j <= i

FirstUsableSourceWitness ==
    /\ scrape.pc = "done"
    /\ scrape.responses[1].exc
    /\ ~scrape.responses[2].exc /\ scrape.responses[2].rows = <<>>
    /\ scrape.responses[3].rows # <<>>
    /\ scrape.responses[4].rows # <<>>
    /\ scrape.got.kind = "ok"
    /\ scrape.got.src = 3

\* C9: a run that folded the acquired matches and was not clamped ends with
\* last_streak_len equal to the streak it computed and last_checked_dt equal to
\* the stamp of the last acquired match, or unchanged when none was acquired.
SuccessfulRunPersists ==
    (/\ run.ran
     /\ run.folds # <<>>
     /\ \A f \in FoldsOfRun : f.streak <= MAX_REASONABLE_STREAK)
        => /\ store.last_streak_len = LastFold.streak
           /\ store.last_checked_dt =
                IF LastFold.n > 0 THEN LastFold.lastDt ELSE run.pre.last_checked_dt

SuccessfulRunPersistsWitness ==
    /\ run.ran
    /\ Len(run.folds) = 1
    /\ run.notifyCalls = 0
    /\ LastFold.n > 0
    /\ LastFold.streak > 0
    /\ LastFold.streak <= MAX_REASONABLE_STREAK
    /\ run.pre.last_checked_dt # None
    /\ store.last_checked_dt # run.pre.last_checked_dt
    /\ store.last_streak_len = LastFold.streak

\* C10 as stated: when the API path fails and the fallback is disabled, nothing
\* is scraped and the store ends as it started.
ApiFailureLeavesStoreUntouched ==
    (run.ran /\ run.apiExc # "none" /\ ~USE_SCRAPE_FALLBACK)
        => /\ "scrape" \notin run.net
           /\ store = run.pre

\* C10 as amended: when the API path fails and the fallback is disabled, nothing is
\* scraped and last_full_run_ts is not stamped; when the failure is in the league
\* lookup or the fixture request, the store ends as it started but for a newly
\* cached apifootball_league_id; when it is in the notifier, the store holds the
\* streak and watermark computed before the attempt and nothing else is changed.
ApiFailureWithoutFallback ==
    (run.ran /\ run.apiExc # "none" /\ ~USE_SCRAPE_FALLBACK)
        => /\ "scrape" \notin run.net
           /\ store.last_full_run_ts = run.pre.last_full_run_ts
           /\ store.last_notified_dt = run.pre.last_notified_dt
           /\ run.apiExc \in {"league", "fixtures"}
                => /\ run.folds = <<>>
                   /\ \E id \in {run.pre.apifootball_league_id, LEAGUE_ID} :
                         store = [run.pre EXCEPT !.apifootball_league_id = id]
           /\ run.apiExc = "league" => store = run.pre
           /\ run.apiExc = "notifier"
                => /\ Len(run.folds) = 1
                   /\ store = [run.pre EXCEPT
                                 !.last_streak_len = LastFold.streak,
                                 !.last_checked_dt = IF LastFold.n > 0 THEN LastFold.lastDt
                                                     ELSE @]

ApiFailureWithoutFallbackWitness ==
    /\ run.ran
    /\ ~USE_SCRAPE_FALLBACK
    /\ run.apiExc = "fixtures"
    /\ run.pre.last_full_run_ts # None
    /\ run.pre.last_streak_len > 0
    /\ run.t - run.pre.last_full_run_ts >= RUN_INTERVAL_MIN * 60
    /\ store = run.pre

\* C11: when send_telegram raises during a run, the store at the end of the run
\* holds the streak and the watermark of the acquisition that led to the attempt:
\* those of the API fold when the attempt of the API path raised, those of the
\* scrape fold when the attempt of the fallback raised.
NotifierFailureKeepsComputedState ==
    run.ran =>
        /\ run.apiExc = "notifier"
             => /\ store.last_streak_len = run.folds[1].streak
                /\ store.last_checked_dt = run.folds[1].lastDt
        /\ (run.exit = "fallback_raised" /\ run.folds # <<>> /\ LastFold.path = "scrape")
             => /\ store.last_streak_len = LastFold.streak
                /\ store.last_checked_dt = LastFold.lastDt

\* C12: a run calls send_telegram at most once and folds acquired matches at most
\* once, whatever the API, the notifier and USE_SCRAPE_FALLBACK do.
RunNotifiesAndFoldsAtMostOnce ==
    run.ran => /\ run.notifyCalls <= 1
               /\ Len(run.folds) <= 1

\* the attempts of a call that did not end in a response with status 200
HttpFailed(k) == http.responses[k].exc \/ http.responses[k].status # 200

\* the attempts of a call in which an exception was raised and caught
HttpCaught(k) ==
    \/ http.responses[k].exc
    \/ http.responses[k].status >= 400 /\ http.responses[k].status \notin {403, 429}

\* C13: a response with a 4xx status other than 429 is surfaced as an error
\* without a further request: the call raises and that request was its last.
ClientErrorSurfacesAtOnce ==
    http.pc = "done" =>
        \A k \in 1..http.got.requests :
            (/\ ~http.responses[k].exc
             /\ http.responses[k].status \in 400..499
             /\ http.responses[k].status # 429)
                => /\ http.got.kind = "raised"
                   /\ http.got.requests = k

\* C14: the call makes at most max_tries requests; it returns only a response with
\* status 200; after failed attempt k it sleeps k * backoff; when every attempt
\* fails it raises the last exception it caught, or the generic error when it
\* caught none.
RetryIsBoundedWithLinearBackoff ==
    http.pc = "done" =>
        LET g == http.got
            n == http.max_tries
            Caught == {k \in 1..n : HttpCaught(k)}
        IN  /\ g.requests <= n
            /\ g.kind = "returned"
                 => /\ g.status = 200
                    /\ http.responses[g.requests].status = 200
                    /\ \A k \in 1..(g.requests - 1) : HttpFailed(k)
            /\ \A k \in 1..g.requests :
                    HttpFailed(k) => Sleep(k, k * http.backoff) \in Range(g.sleeps)
            /\ g.kind = "raised" <=> \A k \in 1..n : HttpFailed(k)
            /\ g.kind = "raised"
                 => /\ g.requests = n
                    /\ g.err = IF Caught = {} THEN Exception(0, "runtime")
                               ELSE LET last == CHOOSE k \in Caught : \A j \in Caught : j <= k
                                    IN  Exception(last, IF http.responses[last].exc
                                                            THEN "network" ELSE "http")

\* C15: under FORCE_REBUILD two runs from state files that differ only in
\* last_checked_dt and last_streak_len, given the same answers, acquire the same
\* full list, fold it from 0 and persist the same last_streak_len and
\* last_checked_dt.
RebuildIgnoresPersistedProgress ==
    (pair.pc = "done" /\ pair.a.folds # <<>>)
        => /\ pair.a.folds = pair.b.folds
           /\ \A i \in 1..Len(pair.a.folds) :
                 /\ pair.a.folds[i].base = 0
                 /\ pair.a.folds[i].n = Len(published)
           /\ pair.a.disk.last_streak_len = pair.b.disk.last_streak_len
           /\ pair.a.disk.last_checked_dt = pair.b.disk.last_checked_dt

\* C16: in the list of candidate_urls_for_season every primary source precedes
\* every reader rendition, every primary source has exactly one reader rendition
\* in the list, and no locator appears twice.
CandidatesPrimariesThenReadersOnce ==
    scrape.pc = "done" =>
        LET urls == candidate_urls_for_season
            Primaries == {i \in 1..Len(urls) : ~urls[i].reader_mode}
            Readers == {i \in 1..Len(urls) : urls[i].reader_mode}
        IN  /\ \A i \in Primaries, j \in Readers : i < j
            /\ \A i \in Primaries :
                  Cardinality({j \in Readers : urls[j].url = ReaderOf(urls[i]).url}) = 1
            /\ \A i, j \in 1..Len(urls) : i # j => urls[i].url # urls[j].url

\* C17: last_notified_dt is written only after the message was delivered or, under
\* DRY_RUN, recorded: a run that changes last_notified_dt outside DRY_RUN has
\* delivered a message for that timestamp.
NotifiedOnlyAfterDelivery ==
    (run.ran /\ ~DRY_RUN /\ store.last_notified_dt # run.pre.last_notified_dt)
        => store.last_notified_dt \in Range(run.delivered)

\* C18: after a run in which api_get_league_id_poland_ekstraklasa asked the
\* provider and stored apifootball_league_id, the store at the end of the run
\* still holds it.
LeagueIdStaysCached ==
    (/\ run.ran
     /\ "api" \in run.net
     /\ run.apiExc # "league"
     /\ run.pre.apifootball_league_id = None)
        => store.apifootball_league_id = LEAGUE_ID

\* C19: without FORCE_REBUILD the value of last_checked_dt after a run is greater
\* than or equal to its value before the run, whichever path the run took.
WatermarkNeverMovesBack ==
    (run.ran /\ ~FORCE_REBUILD /\ run.pre.last_checked_dt # None)
        => /\ store.last_checked_dt # None
           /\ store.last_checked_dt >= run.pre.last_checked_dt

\* the streak of the whole season published so far: the matches after its last draw
SeasonStreak == apply_new_matches_to_streak(0, published).streak

\* fixtures with the same kick-off have no order of their own; the season's streak
\* does not depend on the order the provider gives them when they are all draws
\* or all decided
TiesAreAlike ==
    \A i, j \in 1..Len(published) :
        published[i].dt = published[j].dt => (IsDraw(published[i]) <=> IsDraw(published[j]))

\* C20: over successful, unclamped runs without FORCE_REBUILD every finished match
\* is folded exactly once: after each run last_streak_len is the number of
\* matches after the most recent draw among all the fixtures published so far.
EveryMatchFoldedOnce ==
    [][((run' # run \/ store' # store) /\ TiesAreAlike)
            => store'.last_streak_len = SeasonStreak]_vars

\* C21: under ALERT_MODE=THRESHOLD_ONLY with a notifier that succeeds, a run whose
\* batch of new matches holds a draw followed by at least THRESHOLD matches
\* without a draw sends a notification, also when the streak persisted before the
\* run was at or above THRESHOLD.  (The batch holds a draw exactly when the streak
\* it ends with is shorter than the batch.)
ThresholdOnlyNotifiesEveryNewStreak ==
    (/\ run.ran
     /\ ALERT_MODE = "THRESHOLD_ONLY"
     /\ Len(run.folds) = 1
     /\ LastFold.streak < LastFold.n
     /\ LastFold.streak >= THRESHOLD
     /\ LastFold.streak <= MAX_REASONABLE_STREAK)
        => /\ run.notifyCalls = 1
           /\ run.delivered # <<>>

====
